---- MODULE Spec2Model ----
(***************************************************************************)
(* Model of sandbox/notebooks/loading_and_evaluation.ipynb: the RadioML    *)
(* 2018 dataset wrapper with its seeded train/test split, the loading of   *)
(* the trained quantized network, the batched inference loop over the test *)
(* partition, the accuracy metrics and the inference-cost score.           *)
(* The notebook is run in order, one cell after the other; an uncaught     *)
(* exception stops the run at the cell that raised it.                     *)
(*                                                                         *)
(* The dataset dimensions (24 modulations, 26 SNRs, 4096 frames per pair,  *)
(* batches of 2048) are scaled down to NumMods, NumSnrs, GroupSize and     *)
(* BatchSize; every formula of the code is kept in terms of them.          *)
(***************************************************************************)
EXTENDS Integers, Sequences, FiniteSets, TLC

\* ---------------------------------------------------------------- bounds
\* range(0, 24): the modulations, scaled down.
NumMods == 2
\* range(0, 26): the SNRs per modulation, scaled down.
NumSnrs == 2
\* 4096 frames per (modulation, SNR) pair, scaled down.
GroupSize == 11
\* batch_size = 2048, scaled down.
BatchSize == 3
\* Number of states of the pseudo random generators.
RngModulus == 8
\* The checkpoint's weights are drawn from 0..MaxWeights.
MaxWeights == 1
\* The generator draws made by the construction of the network: 0..MaxInitDraws.
MaxInitDraws == 2
\* The cost report's totals are 0..MaxUnits quarters of the baseline.
MaxUnits == 5

\* A forward pass is tried on inputs of 1..MaxChannels channels.
MaxChannels == 3
\* ... and of 1024 + 64*d samples, d in 0..MaxLenSteps.
MaxLenSteps == 4

\* ------------------------------------------------------- program constants
\* for mod in range(0, 24)
ModCount == 24
\* for snr_idx in range(0, 26)
SnrCount == 26
\* start_idx+4096: the frames per (modulation, SNR) pair
FramesPerGroup == 4096
\* 1024 complex time-series samples per frame
FrameLen == 1024
\* in-phase and quadrature components: 2 channels after the transpose
FrameChans == 2
\* input_bits = 8
InputBitsHyper == 8
\* a_bits = 4
ABitsHyper == 4
\* np.random.seed(2018)
SplitSeed == 2018
\* np.random.seed(0), torch.manual_seed(0)
ModelSeed == 0
\* if snr_idx >= 0
MinTrainSnrIdx == 0
\* w_bits = 8
WBitsHyper == 8
\* w2_bits = 4
W2BitsHyper == 4
bops_baseline == 807699904
w_bits_baseline == 1244936

Min(a, b) == IF a <= b THEN a ELSE b

NumFrames == NumMods * NumSnrs * GroupSize
Frames == 0 .. (NumFrames - 1)
Mods == 0 .. (NumMods - 1)
SnrIdxs == 0 .. (NumSnrs - 1)

\* ------------------------------------------------------------ the dataset
\* snr_classes = np.arange(-20., 32., 2): entry k is -20 + 2k.
snr_classes == [k \in 1 .. NumSnrs |-> 2 * (k - 1) - 20]

\* 'X' holds frames strictly ordered by modulation and SNR:
\* idx = 26*4096*mod + 4096*snr_idx + sample.
FileMod(idx) == idx \div (NumSnrs * GroupSize)
FileSnrIdx(idx) == (idx \div GroupSize) % NumSnrs
FileSnr(idx) == snr_classes[FileSnrIdx(idx) + 1]

\* start_idx = 26*4096*mod + 4096*snr_idx
StartIdx(mod, snr_idx) == NumSnrs * GroupSize * mod + GroupSize * snr_idx
\* indices_subclass = list(range(start_idx, start_idx+4096))
IndicesSubclass(mod, snr_idx) ==
    [k \in 1 .. GroupSize |-> StartIdx(mod, snr_idx) + (k - 1)]
GroupRange(mod, snr_idx) ==
    StartIdx(mod, snr_idx) .. (StartIdx(mod, snr_idx) + GroupSize - 1)

\* split = int(np.ceil(0.1 * 4096)): a tenth of the group, rounded up (410 of
\* 4096).
\* (variant: the tenth rounded down, int(0.1 * n))
TenthRoundedDown(n) == n \div 10
CeilTenth(n) == (n + 9) \div 10
Split == CeilTenth(GroupSize)

\* --------------------------------------------- the pseudo random generator
\* A generator is its state; seeding fixes the state from the seed alone and
\* every draw is a function of the state.
Seed(seed) == seed % RngModulus
RngNext(s) == (5 * s + 3) % RngModulus

RECURSIVE RngAdvance(_, _)
RngAdvance(s, n) == IF n = 0 THEN s ELSE RngAdvance(RngNext(s), n - 1)

Swap(seq, i, j) == [seq EXCEPT ![i] = seq[j], ![j] = seq[i]]

\* np.random.shuffle(x): for i = n-1 down to 1, j drawn in 0..i, swap x[i], x[j]
\* (positions are 1-based here). The result is the shuffled list and the
\* generator's state after the draws.
RECURSIVE ShuffleFrom(_, _, _)
ShuffleFrom(seq, s, i) ==
    IF i <= 1 THEN [seq |-> seq, rng |-> s]
    ELSE LET s1 == RngNext(s)
             j == (s1 % i) + 1
         IN ShuffleFrom(Swap(seq, i, j), s1, i - 1)
Shuffle(seq, s) == ShuffleFrom(seq, s, Len(seq))

\* ------------------------------------------------ radioml_18_dataset.__init__
SnrFilter(snr_idx) == snr_idx >= MinTrainSnrIdx

\* train_indices_subclass = indices_subclass[split:]
\* (variant: the slice taken one position early, indices_subclass[split-1:])
TrainSubclassFromSplitMinusOne(shuffled) == SubSeq(shuffled, Split, Len(shuffled))
TrainSubclass(shuffled) == SubSeq(shuffled, Split + 1, Len(shuffled))
\* test_indices_subclass = indices_subclass[:split]
TestSubclass(shuffled) == SubSeq(shuffled, 1, Split)

\* if snr_idx >= 0: train_indices.extend(train_indices_subclass)
TrainExtend(train, sub, snr_idx) ==
    IF SnrFilter(snr_idx) THEN train \o sub ELSE train

\* (variants: the test share put under an SNR filter; the test share cut by
\* the SNR index, test_indices_subclass[snr_idx:])
TestExtendFiltered(test, sub, snr_idx) ==
    IF snr_idx >= 1 THEN test \o sub ELSE test
TestExtendUneven(test, sub, snr_idx) ==
    test \o SubSeq(sub, Min(snr_idx, Len(sub) - 1) + 1, Len(sub))
\* test_indices.extend(test_indices_subclass)
TestExtend(test, sub, snr_idx) == test \o sub

\* The two nested loops over mod and snr_idx, g = NumSnrs*mod + snr_idx.
RECURSIVE SplitLoop(_, _, _, _)
SplitLoop(g, train, test, s) ==
    IF g = NumMods * NumSnrs THEN [train |-> train, test |-> test, rng |-> s]
    ELSE LET mod == g \div NumSnrs
             snr_idx == g % NumSnrs
             sh == Shuffle(IndicesSubclass(mod, snr_idx), s)
         IN SplitLoop(g + 1,
                      TrainExtend(train, TrainSubclass(sh.seq), snr_idx),
                      TestExtend(test, TestSubclass(sh.seq), snr_idx),
                      sh.rng)

\* The constructor's split, from the state np_state of the global numpy
\* generator at the call: np.random.seed(2018), then the loops. The result
\* holds the two index lists and the generator's state afterwards.
\* (variant: the split without the call of np.random.seed)
SplitNoReseed(np_state) == SplitLoop(0, <<>>, <<>>, np_state)
SplitIndices(np_state) == SplitLoop(0, <<>>, <<>>, Seed(SplitSeed))

\* h5py.File(dataset_path, 'r') raises when there is no such file.
\* (variant: an open that never raises)
OpenNeverRaises(present) == FALSE
OpenRaises(present) == ~present

NoDataset == [bound |-> FALSE, train |-> <<>>, test |-> <<>>]

Range(seq) == {seq[i] : i \in 1 .. Len(seq)}

\* ------------------------------------------------------------- rationals
\* The notebook's float quotients, kept exact: [num, den] in lowest terms,
\* den = 0 for a division by zero.
RECURSIVE Gcd(_, _)
Gcd(a, b) == IF b = 0 THEN a ELSE Gcd(b, a % b)
Rat(n, d) ==
    IF d = 0 THEN [num |-> 0, den |-> 0]
    ELSE LET g == Gcd(n, d) IN [num |-> n \div g, den |-> d \div g]
RatAdd(a, b) ==
    IF a.den = 0 \/ b.den = 0 THEN Rat(0, 0)
    ELSE LET g == Gcd(a.den, b.den)
         IN Rat(a.num * (b.den \div g) + b.num * (a.den \div g),
                (a.den \div g) * b.den)
RatMul(a, b) ==
    IF a.den = 0 \/ b.den = 0 THEN Rat(0, 0)
    ELSE LET x == Rat(a.num, b.den)
             y == Rat(b.num, a.den)
         IN [num |-> x.num * y.num, den |-> x.den * y.den]
RatEq(a, b) == a.den # 0 /\ b.den # 0 /\ a.num * b.den = b.num * a.den
RatLeq(a, b) == a.den # 0 /\ b.den # 0 /\ a.num * b.den <= b.num * a.den
\* The literal 0.5
Half == Rat(1, 2)

RECURSIVE RatSum(_)
RatSum(seq) ==
    IF seq = <<>> THEN Rat(0, 1) ELSE RatAdd(Head(seq), RatSum(Tail(seq)))
\* np.mean(acc)
Mean(seq) == RatMul(RatSum(seq), Rat(1, Len(seq)))

\* -------------------------------------------------------------- the network
Unbound == 0 - 1
NoModel == [bound |-> FALSE, w_bit_width |-> Unbound, w2_bit_width |-> Unbound,
            weights |-> 0, bn |-> 0, training |-> FALSE]
\* The checkpoints torch.load may return: the weights and the batch-norm
\* running statistics.
Checkpoints == [weights : 0 .. MaxWeights, bn : 0 .. 1]

NoCheckpoint == [weights |-> Unbound, bn |-> Unbound]

\* model(): the constructor reads the globals w_bits and w2_bits; a new
\* nn.Module is in training mode.
\* (variant: the two weight bit widths mixed up)
NewModelWidthsSwapped(wb, w2b) ==
    [bound |-> TRUE, w_bit_width |-> w2b, w2_bit_width |-> wb,
     weights |-> 0, bn |-> 0, training |-> TRUE]
NewModel(wb, w2b) ==
    [bound |-> TRUE, w_bit_width |-> wb, w2_bit_width |-> w2b,
     weights |-> 0, bn |-> 0, training |-> TRUE]
\* model.load_state_dict(saved_state)
LoadStateDict(m, st) == [m EXCEPT !.weights = st.weights, !.bn = st.bn]
\* model.eval()
\* (variant: the call left out, the module stays in training mode)
ModelEvalSkipped(m) == m
ModelEval(m) == [m EXCEPT !.training = FALSE]

\* model.forward on frame idx: the logits, one per modulation, a function of
\* the parameters and of the frame.
Forward(m, idx) ==
    [c \in Mods |-> ((m.weights + 1) * (idx + c) + (m.bn + 1) * (idx \div 2) + c * c) % 3]
\* What a forward pass does to the module: in training mode the batch-norm
\* layers update their running statistics, in eval mode nothing changes.
\* Under torch.no_grad() no gradient is recorded, and the notebook has no
\* optimizer: the weights are never written.
AfterForward(m) == IF m.training THEN [m EXCEPT !.bn = m.bn + 1] ELSE m

\* mod_classes: the names of the modulations, one per logit.
mod_classes ==
    << "OOK", "4ASK", "8ASK", "BPSK", "QPSK", "8PSK", "16PSK", "32PSK",
       "16APSK", "32APSK", "64APSK", "128APSK", "16QAM", "32QAM", "64QAM",
       "128QAM", "256QAM", "AM-SSB-WC", "AM-SSB-SC", "AM-DSB-WC", "AM-DSB-SC",
       "FM", "GMSK", "OQPSK" >>

\* model.__init__: the layers the constructor builds, by attribute name, with
\* the weight bit widths wb and w2b it reads from the globals w_bits and
\* w2_bits.
Conv(cin, cout, bits) ==
    [kind |-> "conv", cin |-> cin, cout |-> cout, k |-> 3, pad |-> 1, bits |-> bits]
BatchNorm(c) == [kind |-> "bn", c |-> c]
QuantReLU == [kind |-> "relu", bits |-> ABitsHyper]
MaxPool(k) == [kind |-> "maxpool", k |-> k]
Linear(fin, fout, bits) ==
    [kind |-> "linear", fin |-> fin, fout |-> fout, bits |-> bits]
ModelLayers(wb, w2b) ==
    [conv1 |-> Conv(2, 64, wb), bn1 |-> BatchNorm(64), relu1 |-> QuantReLU,
     maxpol1 |-> MaxPool(2),
     conv2 |-> Conv(64, 32, wb), bn2 |-> BatchNorm(32), relu2 |-> QuantReLU,
     maxpol2 |-> MaxPool(2),
     conv3 |-> Conv(32, 32, wb), bn3 |-> BatchNorm(32), relu3 |-> QuantReLU,
     maxpol3 |-> MaxPool(2),
     conv4 |-> Conv(32, 32, wb), bn4 |-> BatchNorm(32), relu4 |-> QuantReLU,
     maxpol4 |-> MaxPool(2),
     conv5 |-> Conv(32, 32, w2b), bn5 |-> BatchNorm(32), relu5 |-> QuantReLU,
     maxpol5 |-> MaxPool(4),
     Flatten |-> [kind |-> "flatten"],
     linear1 |-> Linear(256, 32, w2b), BatchNorm1d1 |-> BatchNorm(32),
     reluLinear1 |-> QuantReLU,
     linear3 |-> Linear(32, 24, wb)]

\* model.forward, statement by statement and call by call, innermost call
\* first. The first statement constructs a QuantHardTanh layer and drops it:
\* the layer is not called on input. The second pools input itself.
ForwardSteps ==
    << [op |-> "construct", layer |-> "QuantHardTanh", bits |-> InputBitsHyper],
       [op |-> "avg_pool1d", k |-> 2],
       [op |-> "call", layer |-> "conv1"], [op |-> "call", layer |-> "bn1"],
       [op |-> "call", layer |-> "relu1"], [op |-> "call", layer |-> "maxpol1"],
       [op |-> "call", layer |-> "conv2"], [op |-> "call", layer |-> "bn2"],
       [op |-> "call", layer |-> "relu2"], [op |-> "call", layer |-> "maxpol2"],
       [op |-> "call", layer |-> "conv3"], [op |-> "call", layer |-> "bn3"],
       [op |-> "call", layer |-> "relu3"], [op |-> "call", layer |-> "maxpol3"],
       [op |-> "call", layer |-> "conv4"], [op |-> "call", layer |-> "bn4"],
       [op |-> "call", layer |-> "relu4"], [op |-> "call", layer |-> "maxpol4"],
       [op |-> "call", layer |-> "conv5"], [op |-> "call", layer |-> "bn5"],
       [op |-> "call", layer |-> "relu5"], [op |-> "call", layer |-> "maxpol5"],
       [op |-> "call", layer |-> "Flatten"],
       [op |-> "call", layer |-> "linear1"],
       [op |-> "call", layer |-> "BatchNorm1d1"],
       [op |-> "call", layer |-> "reluLinear1"],
       [op |-> "call", layer |-> "linear3"] >>

\* Output length of a convolution with stride 1, and of a pooling with its
\* stride equal to its kernel size (the remainder is dropped).
ConvOutNoPadding(len, k, pad) == len - k + 1
ConvOut(len, k, pad) == len + 2 * pad - k + 1
PoolOut(len, k) == len \div k

\* np.argmax(v): the first index of the largest entry.
Argmax(v) ==
    CHOOSE c \in Mods : (\A d \in Mods : v[d] <= v[c])
                        /\ (\A d \in Mods : d < c => v[d] < v[c])

\* ------------------------------------------------------------- the metrics
ZeroConf == [j \in Mods |-> [k \in Mods |-> 0]]
\* for i in range(len(y_exp)): j = y_exp[i]; k = argmax(y_pred[i]); conf[j,k] += 1
RECURSIVE ConfLoop(_, _, _, _)
ConfLoop(cf, exps, preds, i) ==
    IF i > Len(exps) THEN cf
    ELSE LET j == exps[i]
             k == Argmax(preds[i])
         IN ConfLoop([cf EXCEPT ![j][k] = cf[j][k] + 1], exps, preds, i + 1)
Confusion(exps, preds) == ConfLoop(ZeroConf, exps, preds, 1)

RECURSIVE SumUpTo(_, _)
SumUpTo(f, n) == IF n < 0 THEN 0 ELSE f[n] + SumUpTo(f, n - 1)
\* np.sum(np.diag(conf))
\* (variant: the last class left out of the diagonal)
DiagSumSkipLast(cf) == SumUpTo([j \in Mods |-> cf[j][j]], NumMods - 2)
DiagSum(cf) == SumUpTo([j \in Mods |-> cf[j][j]], NumMods - 1)
\* np.sum(conf)
ConfSum(cf) == SumUpTo([j \in Mods |-> SumUpTo(cf[j], NumMods - 1)], NumMods - 1)

\* seq[(mask).nonzero()]: the entries of seq at the positions where keep holds.
RECURSIVE SelectPos(_, _, _)
SelectPos(seq, keep, i) ==
    IF i > Len(seq) THEN <<>>
    ELSE (IF keep[i] THEN <<seq[i]>> ELSE <<>>) \o SelectPos(seq, keep, i + 1)

\* One pass of the loop "for snr in dataset.snr_classes": the confusion matrix
\* of the frames at that SNR.
SnrConf(exps, snrs, preds, snr) ==
    LET keep == [i \in 1 .. Len(snrs) |-> snrs[i] = snr]
    IN Confusion(SelectPos(exps, keep, 1), SelectPos(preds, keep, 1))
\* acc.append(cor/(cor+ncor)), cor and ncor numpy floats: 0/0 is nan.
\* (variant: cor/ncor)
SnrAccOverNcor(cf) == Rat(DiagSum(cf), ConfSum(cf) - DiagSum(cf))
SnrAcc(cf) == Rat(DiagSum(cf), DiagSum(cf) + (ConfSum(cf) - DiagSum(cf)))

\* The per-modulation cell: the frames of modulation mod at SNR snr.
ModSnrExp(exps, snrs, mod, snr) ==
    SelectPos(exps, [i \in 1 .. Len(exps) |-> exps[i] = mod /\ snrs[i] = snr], 1)
ModSnrPred(exps, snrs, preds, mod, snr) ==
    SelectPos(preds, [i \in 1 .. Len(exps) |-> exps[i] = mod /\ snrs[i] = snr], 1)
\* cor = np.count_nonzero(y_exp_i == np.argmax(y_pred_i, axis=1))
CountCorrect(exps, preds) ==
    Cardinality({i \in 1 .. Len(exps) : exps[i] = Argmax(preds[i])})

\* --------------------------------------------------------------- the score
\* A number of the JSON report: whole + half/2, half 0 or 1. The tool writes
\* its totals as floating point numbers, and with discount_sparsity the
\* operation counts are scaled by the weights' density.
JsonNumbers(wholes) == [whole : wholes, half : 0 .. 1]
JsonLeq(x, y) == x.whole < y.whole \/ (x.whole = y.whole /\ x.half <= y.half)
\* int(x) of a non-negative number: the fraction is cut off.
IntOf(x) == x.whole

\* The analysis tool's report: its totals, here around the quarters of the
\* baselines.
BopsUnit == bops_baseline \div 4
WBitsUnit == w_bits_baseline \div 4
Reports ==
    [total_bops : JsonNumbers({u * BopsUnit : u \in 0 .. MaxUnits}),
     total_mem_w_bits : JsonNumbers({u * WBitsUnit : u \in 0 .. MaxUnits}),
     total_mem_o_bits : JsonNumbers({0})]
NoReport == [total_bops |-> [whole |-> 0, half |-> 0],
             total_mem_w_bits |-> [whole |-> 0, half |-> 0],
             total_mem_o_bits |-> [whole |-> 0, half |-> 0]]

\* score = 0.5*(bops/bops_baseline) + 0.5*(w_bits/w_bits_baseline)
\* (variant: the two 0.5 weights left out)
ScoreUnweighted(b, w) == RatAdd(Rat(b, bops_baseline), Rat(w, w_bits_baseline))
Score(b, w) ==
    RatAdd(RatMul(Half, Rat(b, bops_baseline)),
           RatMul(Half, Rat(w, w_bits_baseline)))

\* ----------------------------------------------------------------- state
VARIABLES
    pc,                  \* the cell the run is at, "done", or "error"
    file_present,        \* os.path.isfile(dataset_path)
    ckpt_present,        \* os.path.isfile(savefile)
    np_rng,              \* the state of numpy's global generator
    torch_rng,           \* the state of torch's global generator
    dataset,             \* the global dataset: the object's two index lists
    first_dataset,       \* the object the first construction bound to dataset
    w_bits,              \* the global w_bits
    w2_bits,             \* the global w2_bits
    saved_state,         \* the global saved_state
    model,               \* the global model
    pending,             \* data_loader_test's iterator: the indices not yet drawn
    n_batches,           \* the batches the loop has processed
    y_exp, y_snr, y_pred,\* the accumulated labels, SNRs and logits
    y_idx,               \* the frame each accumulated entry came from
    conf, cor, ncor,     \* the globals of the confusion-matrix cells
    overall_acc,         \* the printed "Overall Accuracy across all SNRs"
    acc,                 \* the per-SNR accuracies
    mean_acc,            \* the printed "Accuracy overall": np.mean(acc)
    accs,                \* the per-modulation, per-SNR accuracies
    cost_file,           \* the report the analysis tool wrote to cost_dict_path
    inference_cost_dict, \* the cost report read from cost_dict_path
    bops, score,         \* the globals of the score cell
    fwd                  \* a call of model.forward: the step it is at, the
                         \* shape of the value flowing through the layers and
                         \* the operations applied to it so far

vars == <<pc, file_present, ckpt_present, np_rng, torch_rng, dataset,
          first_dataset, w_bits, w2_bits, saved_state, model, pending,
          n_batches, y_exp, y_snr, y_pred, y_idx, conf, cor, ncor,
          overall_acc, acc, mean_acc, accs, cost_file, inference_cost_dict,
          bops, score, fwd>>

envVars == <<file_present, ckpt_present>>
dataVars == <<dataset, first_dataset>>
netVars == <<w_bits, w2_bits, saved_state, model>>
loopVars == <<pending, n_batches, y_exp, y_snr, y_pred, y_idx>>
confVars == <<conf, cor, ncor>>
metricVars == <<overall_acc, acc, mean_acc, accs>>
costVars == <<cost_file, inference_cost_dict, bops, score>>

RngStates == 0 .. (RngModulus - 1)

\* No call of forward is traced.
FwdIdle == [pos |-> 0, in_chans |-> 0, in_len |-> 0, chans |-> 0, len |-> 0,
            flat |-> FALSE, via |-> <<>>, raised |-> FALSE,
            returned |-> FALSE]

Init ==
    /\ pc = "check_dataset"
    /\ fwd = FwdIdle
    /\ file_present \in BOOLEAN
    /\ ckpt_present \in BOOLEAN
    /\ np_rng \in RngStates
    /\ torch_rng \in RngStates
    /\ dataset = NoDataset
    /\ first_dataset = NoDataset
    /\ w_bits = Unbound
    /\ w2_bits = Unbound
    /\ saved_state = NoCheckpoint
    /\ model = NoModel
    /\ pending = <<>>
    /\ n_batches = 0
    /\ y_exp = <<>> /\ y_snr = <<>> /\ y_pred = <<>> /\ y_idx = <<>>
    /\ conf = ZeroConf /\ cor = 0 /\ ncor = 0
    /\ overall_acc = Rat(0, 0)
    /\ acc = <<>>
    /\ mean_acc = Rat(0, 0)
    /\ accs = <<>>
    /\ cost_file = NoReport
    /\ inference_cost_dict = NoReport
    /\ bops = 0
    /\ score = Rat(0, 0)

\* ------------------------------------------------------------------ cells
\* os.path.isfile(dataset_path): the value is displayed, nothing is raised.
CheckDataset ==
    /\ pc = "check_dataset"
    /\ pc' = "construct"
    /\ UNCHANGED <<fwd, envVars, np_rng, torch_rng, dataVars, netVars, loopVars,
                   confVars, metricVars, costVars>>

\* dataset = radioml_18_dataset(dataset_path): h5py.File raises when the file
\* is absent, before anything is bound.
ConstructDataset ==
    /\ pc = "construct"
    /\ IF ~OpenRaises(file_present)
       THEN LET r == SplitIndices(np_rng)
                d == [bound |-> TRUE, train |-> r.train, test |-> r.test]
            IN /\ dataset' = d
               /\ first_dataset' = d
               /\ np_rng' = r.rng
               /\ pc' = "inspect"
       ELSE /\ pc' = "error"
            /\ UNCHANGED <<dataVars, np_rng>>
    /\ UNCHANGED <<fwd, envVars, torch_rng, netVars, loopVars, confVars,
                   metricVars, costVars>>

\* Inspect a frame: reads dataset.data, dataset.mod, dataset.snr and plots.
InspectFrame ==
    /\ pc = "inspect"
    /\ pc' = "hyperparameters"
    /\ UNCHANGED <<fwd, envVars, np_rng, torch_rng, dataVars, netVars, loopVars,
                   confVars, metricVars, costVars>>

\* The hyperparameters, torch.manual_seed(0), np.random.seed(0).
Hyperparameters ==
    /\ pc = "hyperparameters"
    /\ w_bits' = WBitsHyper
    /\ w2_bits' = W2BitsHyper
    /\ torch_rng' = Seed(ModelSeed)
    /\ np_rng' = Seed(ModelSeed)
    /\ pc' = "check_model"
    /\ UNCHANGED <<fwd, envVars, dataVars, saved_state, model, loopVars, confVars,
                   metricVars, costVars>>

\* os.path.isfile(savefile)
CheckModelFile ==
    /\ pc = "check_model"
    /\ pc' = "load"
    /\ UNCHANGED <<fwd, envVars, np_rng, torch_rng, dataVars, netVars, loopVars,
                   confVars, metricVars, costVars>>

\* model = model(); saved_state = torch.load(savefile); load_state_dict.
\* The constructor initialises the layers from torch's global generator;
\* torch.load raises when the checkpoint is absent.
LoadModel ==
    /\ pc = "load"
    /\ \E k \in 0 .. MaxInitDraws :
         torch_rng' = RngAdvance(torch_rng, k)
    /\ IF ckpt_present
       THEN \E st \in Checkpoints :
              /\ saved_state' = st
              /\ model' = LoadStateDict(NewModel(w_bits, w2_bits), st)
              /\ pc' = "fresh_loader"
       ELSE /\ model' = NewModel(w_bits, w2_bits)
            /\ UNCHANGED saved_state
            /\ pc' = "error"
    /\ UNCHANGED <<fwd, envVars, np_rng, dataVars, w_bits, w2_bits, loopVars,
                   confVars, metricVars, costVars>>

\* dataset = radioml_18_dataset(dataset_path); data_loader_test = DataLoader(...)
FreshLoader ==
    /\ pc = "fresh_loader"
    /\ LET r == SplitIndices(np_rng)
       IN /\ dataset' = [bound |-> TRUE, train |-> r.train, test |-> r.test]
          /\ np_rng' = r.rng
    /\ pc' = "infer_start"
    /\ UNCHANGED <<fwd, envVars, torch_rng, first_dataset, netVars, loopVars,
                   confVars, metricVars, costVars>>

\* y_exp, y_snr, y_pred = empty; model.eval(); the loop asks data_loader_test
\* for an iterator: SubsetRandomSampler yields dataset.test_sampler's indices
\* in an order permuted with torch's global generator.
InferStart ==
    /\ pc = "infer_start"
    /\ y_exp' = <<>> /\ y_snr' = <<>> /\ y_pred' = <<>> /\ y_idx' = <<>>
    /\ n_batches' = 0
    /\ model' = ModelEval(model)
    /\ LET sh == Shuffle(dataset.test, torch_rng)
       IN /\ pending' = sh.seq
          /\ torch_rng' = sh.rng
          /\ pc' = IF sh.seq = <<>> THEN "confusion" ELSE "infer"
    /\ UNCHANGED <<fwd, envVars, np_rng, dataVars, w_bits, w2_bits, saved_state,
                   confVars, metricVars, costVars>>

\* DataLoader(batch_size=2048), drop_last left False: the next batch is the
\* next batch_size indices of the sampler, or what is left of them.
\* (variant: drop_last=True, a short last batch is dropped)
NextBatchDropLast(p) ==
    IF Len(p) < BatchSize THEN <<>> ELSE SubSeq(p, 1, BatchSize)
NextBatch(p) == SubSeq(p, 1, Min(BatchSize, Len(p)))
RestAfterBatch(p) == SubSeq(p, Min(BatchSize, Len(p)) + 1, Len(p))

\* __getitem__(idx) returns data[idx], mod[idx], snr[idx]; the loader stacks
\* the batch's items in the sampler's order.
BatchTargets(b) == [i \in 1 .. Len(b) |-> FileMod(b[i])]
BatchSnrs(b) == [i \in 1 .. Len(b) |-> FileSnr(b[i])]
BatchOutputs(m, b) == [i \in 1 .. Len(b) |-> Forward(m, b[i])]

\* One pass of "for data in data_loader_test" under torch.no_grad(); the loop
\* ends when the sampler is exhausted.
InferBatch ==
    /\ pc = "infer"
    /\ pending # <<>>
    /\ LET b == NextBatch(pending)
       IN /\ y_pred' = y_pred \o BatchOutputs(model, b)
          /\ y_exp' = y_exp \o BatchTargets(b)
          /\ y_snr' = y_snr \o BatchSnrs(b)
          /\ y_idx' = y_idx \o b
    /\ model' = AfterForward(model)
    /\ pending' = RestAfterBatch(pending)
    /\ n_batches' = n_batches + 1
    /\ pc' = IF pending' = <<>> THEN "confusion" ELSE "infer"
    /\ UNCHANGED <<fwd, envVars, np_rng, torch_rng, dataVars, w_bits, w2_bits,
                   saved_state, confVars, metricVars, costVars>>

\* The overall confusion matrix and "Overall Accuracy across all SNRs".
OverallConfusion ==
    /\ pc = "confusion"
    /\ LET cf == Confusion(y_exp, y_pred)
           c == DiagSum(cf)
           n == ConfSum(cf) - c
       IN /\ conf' = cf
          /\ cor' = c
          /\ ncor' = n
          /\ overall_acc' = Rat(c, c + n)
    /\ pc' = "per_snr"
    /\ UNCHANGED <<fwd, envVars, np_rng, torch_rng, dataVars, netVars, loopVars,
                   acc, mean_acc, accs, costVars>>

\* The confusion matrices per SNR: acc gets one accuracy per entry of
\* snr_classes; conf, cor and ncor are left at the last SNR's values.
PerSnrConfusion ==
    /\ pc = "per_snr"
    /\ acc' = [k \in 1 .. NumSnrs |->
                 SnrAcc(SnrConf(y_exp, y_snr, y_pred, snr_classes[k]))]
    /\ LET cf == SnrConf(y_exp, y_snr, y_pred, snr_classes[NumSnrs])
       IN /\ conf' = cf
          /\ cor' = DiagSum(cf)
          /\ ncor' = ConfSum(cf) - DiagSum(cf)
    /\ pc' = "plot_acc"
    /\ UNCHANGED <<fwd, envVars, np_rng, torch_rng, dataVars, netVars, loopVars,
                   overall_acc, mean_acc, accs, costVars>>

\* The accuracy-over-SNR plot and "Accuracy overall": np.mean(acc).
PlotAccuracy ==
    /\ pc = "plot_acc"
    /\ mean_acc' = Mean(acc)
    /\ pc' = "per_mod"
    /\ UNCHANGED <<fwd, envVars, np_rng, torch_rng, dataVars, netVars, loopVars,
                   confVars, overall_acc, acc, accs, costVars>>

\* The accuracy per modulation and SNR: cor/len(y_exp_i), cor a Python int,
\* so an empty selection raises ZeroDivisionError.
PerModAccuracy ==
    /\ pc = "per_mod"
    /\ IF \E mod \in Mods, k \in 1 .. NumSnrs :
            ModSnrExp(y_exp, y_snr, mod, snr_classes[k]) = <<>>
       THEN /\ pc' = "error"
            /\ UNCHANGED <<accs, cor>>
       ELSE /\ accs' = [mod \in Mods |-> [k \in 1 .. NumSnrs |->
                          LET e == ModSnrExp(y_exp, y_snr, mod, snr_classes[k])
                              p == ModSnrPred(y_exp, y_snr, y_pred, mod, snr_classes[k])
                          IN Rat(CountCorrect(e, p), Len(e))]]
            /\ cor' = CountCorrect(
                        ModSnrExp(y_exp, y_snr, NumMods - 1, snr_classes[NumSnrs]),
                        ModSnrPred(y_exp, y_snr, y_pred, NumMods - 1, snr_classes[NumSnrs]))
            /\ pc' = "export"
    /\ UNCHANGED <<fwd, envVars, np_rng, torch_rng, dataVars, netVars, loopVars,
                   conf, ncor, overall_acc, acc, mean_acc, costVars>>

\* BrevitasONNXManager.export(model.cpu(), input_t=torch.randn(1, 2, 1024)):
\* the input is drawn from torch's generator and traced through the model.
ExportOnnx ==
    /\ pc = "export"
    /\ torch_rng' = RngNext(torch_rng)
    /\ model' = AfterForward(model)
    /\ pc' = "inference_cost"
    /\ UNCHANGED <<fwd, envVars, np_rng, dataVars, w_bits, w2_bits, saved_state,
                   loopVars, confVars, metricVars, costVars>>

\* inference_cost(export_onnx_path, output_json=cost_dict_path, ...): the
\* tool writes its report.
InferenceCost ==
    /\ pc = "inference_cost"
    /\ \E r \in Reports : cost_file' = r
    /\ pc' = "netron"
    /\ UNCHANGED <<fwd, envVars, np_rng, torch_rng, dataVars, netVars, loopVars,
                   confVars, metricVars, inference_cost_dict, bops, score>>

\* showInNetron(final_onnx_path): display only.
ShowInNetron ==
    /\ pc = "netron"
    /\ pc' = "score"
    /\ UNCHANGED <<fwd, envVars, np_rng, torch_rng, dataVars, netVars, loopVars,
                   confVars, metricVars, costVars>>

\* The score cell: reads the report, binds bops and w_bits, computes score.
ScoreCell ==
    /\ pc = "score"
    /\ inference_cost_dict' = cost_file
    /\ bops' = IntOf(cost_file.total_bops)
    /\ w_bits' = IntOf(cost_file.total_mem_w_bits)
    /\ score' = Score(bops', w_bits')
    /\ pc' = "done"
    /\ UNCHANGED <<fwd, envVars, np_rng, torch_rng, dataVars, w2_bits, saved_state,
                   model, loopVars, confVars, metricVars, cost_file>>

Next ==
    \/ CheckDataset
    \/ ConstructDataset
    \/ InspectFrame
    \/ Hyperparameters
    \/ CheckModelFile
    \/ LoadModel
    \/ FreshLoader
    \/ InferStart
    \/ InferBatch
    \/ OverallConfusion
    \/ PerSnrConfusion
    \/ PlotAccuracy
    \/ PerModAccuracy
    \/ ExportOnnx
    \/ InferenceCost
    \/ ShowInNetron
    \/ ScoreCell

Spec == Init /\ [][Next]_vars

\* --------------------------------------------------- a call of model.forward
\* The layers of the model as the notebook builds it, the inputs a call is
\* tried on, and the call, one operation at a time. A value of shape
\* (chans, len) is flat when Flatten has made it a vector of chans features.
LayersOf(m) == ModelLayers(m.w_bit_width, m.w2_bit_width)
FwdInputs ==
    {[pos |-> 1, in_chans |-> c, in_len |-> FrameLen + 64 * d, chans |-> c,
      len |-> FrameLen + 64 * d, flat |-> FALSE, via |-> <<>>,
      raised |-> FALSE, returned |-> FALSE] :
        c \in 1 .. MaxChannels, d \in 0 .. MaxLenSteps}

FwdInit ==
    /\ pc = "forward"
    /\ fwd \in FwdInputs
    /\ file_present = TRUE
    /\ ckpt_present = TRUE
    /\ np_rng = Seed(ModelSeed)
    /\ torch_rng = Seed(ModelSeed)
    /\ dataset = NoDataset
    /\ first_dataset = NoDataset
    /\ w_bits = WBitsHyper
    /\ w2_bits = W2BitsHyper
    /\ saved_state = NoCheckpoint
    /\ model = ModelEval(NewModel(WBitsHyper, W2BitsHyper))
    /\ pending = <<>>
    /\ n_batches = 0
    /\ y_exp = <<>> /\ y_snr = <<>> /\ y_pred = <<>> /\ y_idx = <<>>
    /\ conf = ZeroConf /\ cor = 0 /\ ncor = 0
    /\ overall_acc = Rat(0, 0)
    /\ acc = <<>>
    /\ mean_acc = Rat(0, 0)
    /\ accs = <<>>
    /\ cost_file = NoReport
    /\ inference_cost_dict = NoReport
    /\ bops = 0
    /\ score = Rat(0, 0)

notebookVars == <<pc, envVars, np_rng, torch_rng, dataVars, netVars, loopVars,
                  confVars, metricVars, costVars>>

FwdRunning ==
    /\ pc = "forward"
    /\ ~ fwd.raised
    /\ fwd.pos \in 1 .. Len(ForwardSteps)
FwdStep == ForwardSteps[fwd.pos]
FwdLayer == LayersOf(model)[FwdStep.layer]
FwdCalls(kind) ==
    /\ FwdRunning
    /\ FwdStep.op = "call"
    /\ FwdLayer.kind = kind
\* The operation went through: the value has the new shape.
FwdApplied(name, chans, len, flat) ==
    [fwd EXCEPT !.pos = @ + 1, !.via = Append(@, name),
                !.chans = chans, !.len = len, !.flat = flat]
\* The operation raised: the call ends there.
FwdRaised == [fwd EXCEPT !.raised = TRUE]

\* qnn.QuantHardTanh(act_quant=InputQuantizer): an expression statement. The
\* layer is built and dropped, nothing is applied to input.
FwdConstruct ==
    /\ FwdRunning
    /\ FwdStep.op = "construct"
    /\ fwd' = [fwd EXCEPT !.pos = @ + 1]
    /\ UNCHANGED notebookVars

\* x = F.avg_pool1d(input, kernel_size=2, stride=2)
FwdAvgPool ==
    /\ FwdRunning
    /\ FwdStep.op = "avg_pool1d"
    /\ fwd' = IF fwd.flat \/ PoolOut(fwd.len, FwdStep.k) = 0
              THEN FwdRaised
              ELSE FwdApplied("avg_pool1d", fwd.chans,
                              PoolOut(fwd.len, FwdStep.k), FALSE)
    /\ UNCHANGED notebookVars

\* QuantConv1d(cin, cout, 3, padding=1): the input must have cin channels.
FwdConv ==
    /\ FwdCalls("conv")
    /\ fwd' = IF \/ fwd.flat
                 \/ fwd.chans # FwdLayer.cin
                 \/ ConvOut(fwd.len, FwdLayer.k, FwdLayer.pad) <= 0
              THEN FwdRaised
              ELSE FwdApplied(FwdStep.layer, FwdLayer.cout,
                              ConvOut(fwd.len, FwdLayer.k, FwdLayer.pad), FALSE)
    /\ UNCHANGED notebookVars

\* BatchNorm1d(c): the input must have c channels (or c features).
FwdBatchNorm ==
    /\ FwdCalls("bn")
    /\ fwd' = IF fwd.chans # FwdLayer.c
              THEN FwdRaised
              ELSE FwdApplied(FwdStep.layer, fwd.chans, fwd.len, fwd.flat)
    /\ UNCHANGED notebookVars

\* QuantReLU: elementwise.
FwdRelu ==
    /\ FwdCalls("relu")
    /\ fwd' = FwdApplied(FwdStep.layer, fwd.chans, fwd.len, fwd.flat)
    /\ UNCHANGED notebookVars

\* MaxPool1d(k)
FwdMaxPool ==
    /\ FwdCalls("maxpool")
    /\ fwd' = IF fwd.flat \/ PoolOut(fwd.len, FwdLayer.k) = 0
              THEN FwdRaised
              ELSE FwdApplied(FwdStep.layer, fwd.chans,
                              PoolOut(fwd.len, FwdLayer.k), FALSE)
    /\ UNCHANGED notebookVars

\* nn.Flatten(): (chans, len) becomes chans*len features.
FwdFlatten ==
    /\ FwdCalls("flatten")
    /\ fwd' = IF fwd.flat
              THEN FwdApplied(FwdStep.layer, fwd.chans, fwd.len, TRUE)
              ELSE FwdApplied(FwdStep.layer, fwd.chans * fwd.len, 0, TRUE)
    /\ UNCHANGED notebookVars

\* QuantLinear(fin, fout): the input's last dimension must be fin.
FwdLinear ==
    /\ FwdCalls("linear")
    /\ fwd' = IF fwd.flat
              THEN IF fwd.chans # FwdLayer.fin
                   THEN FwdRaised
                   ELSE FwdApplied(FwdStep.layer, FwdLayer.fout, 0, TRUE)
              ELSE IF fwd.len # FwdLayer.fin
                   THEN FwdRaised
                   ELSE FwdApplied(FwdStep.layer, fwd.chans, FwdLayer.fout, FALSE)
    /\ UNCHANGED notebookVars

\* return output
FwdReturn ==
    /\ pc = "forward"
    /\ ~ fwd.raised
    /\ ~ fwd.returned
    /\ fwd.pos = Len(ForwardSteps) + 1
    /\ fwd' = [fwd EXCEPT !.returned = TRUE]
    /\ UNCHANGED notebookVars

FwdNext ==
    \/ FwdConstruct
    \/ FwdAvgPool
    \/ FwdConv
    \/ FwdBatchNorm
    \/ FwdRelu
    \/ FwdMaxPool
    \/ FwdFlatten
    \/ FwdLinear
    \/ FwdReturn

ForwardSpec == FwdInit /\ [][FwdNext]_vars

\* ================================================================ claims
TrainSet == Range(dataset.train)
TestSet == Range(dataset.test)
TrainOf(mod, snr_idx) == TrainSet \cap GroupRange(mod, snr_idx)
TestOf(mod, snr_idx) == TestSet \cap GroupRange(mod, snr_idx)

\* C1: once a dataset object is constructed, within every (modulation,
\* SNR index) group the train and the test indices are disjoint and together
\* are exactly the group's index range, and no index is in both lists.
C1_SplitPartitionsEveryGroup ==
    dataset.bound =>
        /\ \A mod \in Mods, snr_idx \in SnrIdxs :
             /\ TrainOf(mod, snr_idx) \cap TestOf(mod, snr_idx) = {}
             /\ TrainOf(mod, snr_idx) \cup TestOf(mod, snr_idx)
                  = GroupRange(mod, snr_idx)
        /\ TrainSet \cap TestSet = {}
C1_Witness ==
    /\ dataset.bound
    /\ \A mod \in Mods, snr_idx \in SnrIdxs :
         TrainOf(mod, snr_idx) # {} /\ TestOf(mod, snr_idx) # {}

\* C2: every construction yields the same train and test lists: the fresh
\* dataset equals the first one although np.random.seed(0) ran in between,
\* and the lists are those the constructor yields from any generator state.
C2_SplitDeterministic ==
    dataset.bound =>
        /\ dataset.train = first_dataset.train
        /\ dataset.test = first_dataset.test
        /\ pc \in {"inspect", "infer_start"} =>
             \A s \in RngStates :
                /\ SplitIndices(s).train = dataset.train
                /\ SplitIndices(s).test = dataset.test
C2_Witness ==
    /\ pc = "infer_start"
    /\ dataset.bound
    /\ first_dataset.bound
    /\ Seed(ModelSeed) # Seed(SplitSeed)
    /\ \E s \in RngStates : SplitNoReseed(s).test # dataset.test

\* C3 as stated: every frame index is in the test index set, and the train
\* index set holds only frames whose SNR index passes the filter.
C3_EveryFrameInTest ==
    dataset.bound =>
        /\ \A f \in Frames : f \in TestSet
        /\ \A f \in TrainSet : SnrFilter(FileSnrIdx(f))
\* C3 amended: every (modulation, SNR index) group has its test share of Split
\* frames in the test index set, whether or not its SNR index passes the
\* filter, and the train index set holds only frames whose SNR index passes.
C3_EveryGroupInTest ==
    dataset.bound =>
        /\ \A mod \in Mods, snr_idx \in SnrIdxs :
             Cardinality(TestOf(mod, snr_idx)) = Split
        /\ Split > 0
        /\ \A f \in TrainSet : SnrFilter(FileSnrIdx(f))
C3_Witness ==
    /\ dataset.bound
    /\ \E f \in Frames : f \notin TestSet /\ f \in TrainSet

AfterLoop == {"confusion", "per_snr", "plot_acc", "per_mod", "export",
              "inference_cost", "netron", "score", "done"}
\* ceil(|test| / batch_size)
CeilBatches == (Len(dataset.test) + BatchSize - 1) \div BatchSize
NoDuplicates(seq) == \A i, j \in 1 .. Len(seq) : i # j => seq[i] # seq[j]

\* C4: during and after the evaluation loop the three accumulators have the
\* length of the frames processed so far, full batches except possibly the
\* last; entry i of each comes from the same frame; no frame is processed
\* twice and none outside the test partition; the loop ends after
\* ceil(|test| / batch_size) batches with every test index processed.
C4_LoopCoversTestOnce ==
    pc \in {"infer"} \cup AfterLoop =>
        /\ Len(y_idx) = Min(n_batches * BatchSize, Len(dataset.test))
        /\ Len(y_exp) = Len(y_idx)
        /\ Len(y_snr) = Len(y_idx)
        /\ Len(y_pred) = Len(y_idx)
        /\ \A i \in 1 .. Len(y_idx) :
             /\ y_exp[i] = FileMod(y_idx[i])
             /\ y_snr[i] = FileSnr(y_idx[i])
             /\ y_pred[i] = Forward(model, y_idx[i])
        /\ NoDuplicates(y_idx)
        /\ Range(y_idx) \subseteq TestSet
        /\ Range(y_idx) \cup Range(pending) = TestSet
        /\ pc = "infer" => pending # <<>> /\ n_batches < CeilBatches
        /\ pc \in AfterLoop =>
             /\ n_batches = CeilBatches
             /\ pending = <<>>
             /\ Range(y_idx) = TestSet
C4_Witness ==
    /\ pc = "confusion"
    /\ n_batches > 1
    /\ Len(y_idx) % BatchSize # 0
    /\ Range(y_idx) = TestSet

Positions == 1 .. Len(y_exp)
Hits == {i \in Positions : y_exp[i] = Argmax(y_pred[i])}

\* C5: right after the confusion-matrix cell, conf[j][k] is the number of
\* evaluated frames with true label j and argmax prediction k, its entries
\* sum to the number of evaluated frames, and the printed accuracy is the
\* diagonal's sum over the total: the fraction of frames predicted right.
C5_AccuracyIsDiagonalOverTotal ==
    pc = "per_snr" =>
        /\ \A j, k \in Mods :
             conf[j][k] = Cardinality({i \in Positions :
                                         y_exp[i] = j /\ Argmax(y_pred[i]) = k})
        /\ cor = Cardinality(Hits)
        /\ cor + ncor = Len(y_exp)
        /\ overall_acc.den # 0
        /\ overall_acc.num * Len(y_exp) = Cardinality(Hits) * overall_acc.den
C5_Witness ==
    /\ pc = "per_snr"
    /\ cor > 0
    /\ ncor > 0

InUnitInterval(q) == q.den # 0 /\ 0 <= q.num /\ q.num <= q.den

\* C6: every per-SNR accuracy has evaluated frames behind it (a non-zero
\* denominator) and lies in [0, 1], and so does every per-(modulation, SNR)
\* accuracy; the per-modulation cell does not raise.
C6_AccuraciesWellDefined ==
    /\ pc \in {"plot_acc", "per_mod", "export", "inference_cost", "netron",
               "score", "done"} =>
         /\ Len(acc) = NumSnrs
         /\ \A k \in 1 .. NumSnrs :
              /\ {i \in Positions : y_snr[i] = snr_classes[k]} # {}
              /\ InUnitInterval(acc[k])
    /\ pc \in {"export", "inference_cost", "netron", "score", "done"} =>
         \A mod \in Mods, k \in 1 .. NumSnrs :
              /\ {i \in Positions : y_exp[i] = mod /\ y_snr[i] = snr_classes[k]} # {}
              /\ InUnitInterval(accs[mod][k])
    /\ pc = "error" => ~ model.bound \/ saved_state = NoCheckpoint
C6_Witness ==
    /\ pc = "export"
    /\ \E k \in 1 .. NumSnrs : acc[k].num > 0 /\ acc[k].num < acc[k].den
    /\ \E mod \in Mods, k \in 1 .. NumSnrs : accs[mod][k].num > 0

\* C7: every SNR value has the same number of frames in the test partition,
\* and the printed mean of the per-SNR accuracies equals the printed overall
\* accuracy.
C7_MeanEqualsOverall ==
    pc \in {"per_mod", "export", "inference_cost", "netron", "score", "done"} =>
        /\ \A k \in 1 .. NumSnrs :
             Cardinality({i \in Positions : y_snr[i] = snr_classes[k]})
               = NumMods * Split
        /\ RatEq(mean_acc, overall_acc)
C7_Witness ==
    /\ pc = "per_mod"
    /\ \E k, l \in 1 .. NumSnrs : ~ RatEq(acc[k], acc[l])
    /\ RatEq(mean_acc, overall_acc)

\* C8: with the dataset file absent, the os.path.isfile cell just hands over
\* to the next cell; the construction raises, binds no dataset, and the run
\* stops there: no step follows the error and no later cell has left a trace.
C8_MissingFileHaltsAtConstruction ==
    [][ /\ pc = "check_dataset" => pc' = "construct"
        /\ ~ file_present /\ pc = "construct" => pc' = "error"
        /\ ~ file_present => pc # "error"
        /\ ~ file_present' =>
             /\ pc' \in {"construct", "error"}
             /\ ~ dataset'.bound
             /\ ~ model'.bound
             /\ saved_state' = NoCheckpoint
             /\ w_bits' = Unbound
             /\ y_pred' = <<>>
             /\ acc' = <<>>
             /\ accs' = <<>>
             /\ cost_file' = NoReport
             /\ score' = Rat(0, 0) ]_vars
C8_Witness ==
    /\ ~ file_present
    /\ pc = "error"
    /\ ~ dataset.bound

\* C9: from load_state_dict on, the model's weights and batch-norm running
\* statistics are those of the checkpoint, through the evaluation loop and
\* the export, and the model is in eval mode from the first batch on.
C9_ParametersStayAsLoaded ==
    saved_state # NoCheckpoint =>
        /\ model.bound
        /\ model.weights = saved_state.weights
        /\ model.bn = saved_state.bn
        /\ pc \in {"infer"} \cup AfterLoop => ~ model.training
C9_Witness ==
    /\ pc = "inference_cost"
    /\ saved_state # NoCheckpoint
    /\ n_batches > 1
    /\ model.bn = saved_state.bn

ScoreOfReport(r) == Score(IntOf(r.total_bops), IntOf(r.total_mem_w_bits))
\* 2*q*score - (u + v), times score's denominator: zero when the score is
\* 0.5*(bops/bops_baseline) + 0.5*(w_bits/w_bits_baseline) of the integers
\* bops and w_bits, u and v units of a q-th of their baselines.
ScoreExcess ==
    LET u == bops \div BopsUnit
        v == w_bits \div WBitsUnit
        q == bops_baseline \div BopsUnit
    IN 2 * q * score.num - (u + v) * score.den

\* C10 as stated: the score is 0.5*(total_bops/bops_baseline) +
\* 0.5*(total_mem_w_bits/w_bits_baseline) of the report's two fields. With
\* total_bops = u*BopsUnit + h/2 and total_mem_w_bits = v*WBitsUnit + k/2 the
\* identity 2*score*bops_baseline*w_bits_baseline
\*    = total_bops*w_bits_baseline + total_mem_w_bits*bops_baseline,
\* divided by the two units' product, is
\* 2*q*score = u + v + h/(2*BopsUnit) + k/(2*WBitsUnit); it is stated here for
\* a report whose total_mem_w_bits is whole (k = 0), times 2*BopsUnit.
C10_ScoreOfRawFields ==
    pc = "done" /\ inference_cost_dict.total_mem_w_bits.half = 0 =>
        /\ score.den # 0
        /\ 2 * BopsUnit * ScoreExcess
             = inference_cost_dict.total_bops.half * score.den

\* C10 amended: the score is 0.5*(bops/bops_baseline) +
\* 0.5*(w_bits/w_bits_baseline) of bops = int(total_bops) and
\* w_bits = int(total_mem_w_bits), the report's two fields with their
\* fractions cut off, and of nothing else of the report; it is 1 when both
\* are at their baselines and does not decrease when a field grows.
C10_ScoreFormula ==
    pc = "done" =>
        /\ inference_cost_dict = cost_file
        /\ bops = IntOf(inference_cost_dict.total_bops)
        /\ w_bits = IntOf(inference_cost_dict.total_mem_w_bits)
        /\ bops % BopsUnit = 0 /\ w_bits % WBitsUnit = 0
        /\ bops_baseline \div BopsUnit = w_bits_baseline \div WBitsUnit
        /\ score.den # 0
        /\ ScoreExcess = 0
        /\ bops = bops_baseline /\ w_bits = w_bits_baseline => score = Rat(1, 1)
        /\ \A r \in Reports :
             /\ JsonLeq(inference_cost_dict.total_bops, r.total_bops)
                /\ JsonLeq(inference_cost_dict.total_mem_w_bits, r.total_mem_w_bits)
                  => RatLeq(score, ScoreOfReport(r))
             /\ r.total_bops = inference_cost_dict.total_bops
                /\ r.total_mem_w_bits = inference_cost_dict.total_mem_w_bits
                  => ScoreOfReport(r) = score
C10_Witness ==
    /\ pc = "done"
    /\ inference_cost_dict.total_bops = [whole |-> bops_baseline, half |-> 1]
    /\ w_bits = w_bits_baseline
    /\ inference_cost_dict.total_mem_o_bits.half # 0
    /\ score = Rat(1, 1)

\* The positions of operation name among those applied to the value so far.
ViaAt(name) == {i \in 1 .. Len(fwd.via) : fwd.via[i] = name}

\* C11: in a call of forward, the value conv1 is applied to has gone through
\* the QuantHardTanh input quantization layer: whenever conv1 is among the
\* operations applied, QuantHardTanh was applied before it.
C11_Conv1InputQuantized ==
    \A j \in ViaAt("conv1") : \E i \in ViaAt("QuantHardTanh") : i < j

\* C12: every (modulation, SNR index) group puts a tenth of its frames,
\* rounded up, in the test list and the others in the train list, so the
\* lists have groups * share and groups * (group size - share) entries, all
\* frame indices of the dataset, none twice. At the dataset's dimensions the
\* share is ceil(0.1*4096) = 410 of 4096, the rest 3686, and the lists have
\* 24*26*410 = 255840 and 24*26*3686 = 2300064 entries within 0..2555903.
C12_SplitSizes ==
    /\ dataset.bound /\ pc \in {"inspect", "infer_start"} =>
         /\ \A mod \in Mods, snr_idx \in SnrIdxs :
              LET t == Cardinality(TestOf(mod, snr_idx))
              IN /\ 10 * t >= GroupSize
                 /\ 10 * (t - 1) < GroupSize
                 /\ Cardinality(TrainOf(mod, snr_idx)) = GroupSize - t
                 /\ NumMods * NumSnrs * t = Len(dataset.test)
                 /\ NumMods * NumSnrs * (GroupSize - t) = Len(dataset.train)
         /\ TestSet \subseteq Frames
         /\ TrainSet \subseteq Frames
         /\ Cardinality(TestSet) = Len(dataset.test)
         /\ Cardinality(TrainSet) = Len(dataset.train)
    /\ dataset.bound =>
         /\ CeilTenth(FramesPerGroup) = 410
         /\ FramesPerGroup - CeilTenth(FramesPerGroup) = 3686
         /\ ModCount * SnrCount * CeilTenth(FramesPerGroup) = 255840
         /\ ModCount * SnrCount * (FramesPerGroup - CeilTenth(FramesPerGroup))
              = 2300064
         /\ ModCount * SnrCount * FramesPerGroup - 1 = 2555903
C12_Witness ==
    /\ dataset.bound
    /\ pc = "infer_start"
    /\ Len(dataset.test) = NumMods * NumSnrs * Split
    /\ Len(dataset.train) > Len(dataset.test)
    /\ Split > 1

\* The pooling operations applied to the value so far.
PoolsApplied ==
    Cardinality({i \in 1 .. Len(fwd.via) :
        fwd.via[i] \in {"avg_pool1d", "maxpol1", "maxpol2", "maxpol3",
                        "maxpol4", "maxpol5"}})
LastApplied == IF fwd.via = <<>> THEN "" ELSE fwd.via[Len(fwd.via)]

\* C13: on a frame of 2 channels and 1024 samples no layer of forward raises;
\* the average pool and the five max pools take the length through 512, 256,
\* 128, 64, 32 and 8, with 32 channels at the end; Flatten yields 32*8 = 256
\* features, the input width of linear1; the result is 24 logits, one per
\* entry of mod_classes.
C13_ForwardShapes ==
    fwd.in_chans = FrameChans /\ fwd.in_len = FrameLen =>
        /\ ~ fwd.raised
        /\ ~ fwd.flat =>
             fwd.len = <<1024, 512, 256, 128, 64, 32, 8>>[PoolsApplied + 1]
        /\ LastApplied = "maxpol5" => fwd.chans = 32 /\ fwd.len = 8
        /\ LastApplied = "Flatten" =>
             /\ fwd.flat
             /\ fwd.chans = 32 * 8
             /\ fwd.chans = 256
             /\ fwd.chans = LayersOf(model).linear1.fin
        /\ fwd.returned =>
             /\ fwd.flat
             /\ LastApplied = "linear3"
             /\ fwd.chans = 24
             /\ fwd.chans = Len(mod_classes)
C13_Witness ==
    /\ fwd.in_chans = FrameChans
    /\ fwd.in_len = FrameLen
    /\ fwd.returned
    /\ PoolsApplied = 6
    /\ fwd.chans = Len(mod_classes)

\* C14: when model() runs, the global w_bits holds the hyperparameter 8, so
\* conv1..conv4 and linear3 of the evaluated and exported model have 8-bit
\* weights; w_bits holds anything else only once the score cell, the last
\* one, has bound it to the report's weight-bit total, and the model's bit
\* widths are then still the ones it was built with.
C14_WBitsAtModelConstruction ==
    /\ WBitsHyper = 8
    /\ pc = "load" => w_bits = WBitsHyper
    /\ model.bound =>
         /\ model.w_bit_width = WBitsHyper
         /\ \A layer \in {"conv1", "conv2", "conv3", "conv4", "linear3"} :
              LayersOf(model)[layer].bits = WBitsHyper
    /\ w_bits \notin {Unbound, WBitsHyper} => pc = "done"
    /\ pc = "done" =>
         /\ w_bits = IntOf(inference_cost_dict.total_mem_w_bits)
         /\ model.bound
C14_Witness ==
    /\ pc = "done"
    /\ w_bits # WBitsHyper
    /\ model.bound
    /\ LayersOf(model).conv1.bits = WBitsHyper
    /\ LayersOf(model).conv5.bits = W2BitsHyper
====
